---- MODULE Spec2Model ----
(***************************************************************************)
(* State-machine model of the pickleball reservation bot:                  *)
(*   sniper.py        run(), book_slot_direct(), check_availability()      *)
(*   slack_server.py  verify_slack_signature(), handle_slack_action(),     *)
(*                    run_booking_in_background()                          *)
(* One behaviour exercises one entry point (variable entry); the gateway   *)
(* entry serves several inbound callbacks and their worker threads.        *)
(***************************************************************************)
EXTENDS Integers, Sequences, FiniteSets, TLC

\* ------------------------------------------------------------- bounds
MaxCands == 2
MaxDay == 1
MaxHorizon == 4
MaxReqs == 2

\* ------------------------------------------------------------- constants
FIVE_MINUTES == 300
DIRECT_LIMIT == 4
DEFAULT_DAYS_AHEAD_LIMIT == 4

Courts == {"Wood 1", "Wood 2"}

\* Button labels are character sequences so that trimming and substring
\* matching are computed, not assumed.
BOOK == <<"B", "o", "o", "k">>
BOOK_PADDED == <<" ", "B", "o", "o", "k", " ">>
BOOKED == <<"B", "o", "o", "k", "e", "d">>
Labels == {BOOK, BOOK_PADDED, BOOKED}

VARIABLES
    entry,              \* which entry point runs: "run", "direct", "check", "gateway"
    session_file,       \* SESSION_DIR/auth.json exists
    clock,              \* Manila wall clock: [day, late]; late = at or after 23:59:59.5
    pc,                 \* position of the engine function
    trace,              \* UI actions issued so far, in order
    message,            \* what the engine function reported or returned
    page_day,           \* calendar day shown by the remote day view
    page_content,       \* marker strings present in the last page.content() read
    day,                \* loop counter of the day-advance loop
    btn_text,           \* inner text of the control found by the Book lookup
    slack_webhook_url,  \* SLACK_WEBHOOK_URL
    slack_post,         \* how the webhook POST of the last notification went
    slack_sent,         \* what send_slack_message returned last
    \* --- run()
    target_courts,      \* TARGET_COURT_KEYWORDS
    wait_enabled,       \* ENABLE_WAIT_FOR_MIDNIGHT
    days_ahead_limit,   \* DAYS_AHEAD_LIMIT
    now_manila,
    target_date_obj,
    slept,              \* the midnight wait has slept at least once
    click_positions,    \* court -> [x, y], for the courts whose x and y were both resolved
    idx,                \* index of the current candidate in target_courts
    booked_successfully,
    court_results,
    \* --- book_slot_direct()
    target_date,        \* argument: the date text
    target_court,       \* argument
    target_time,        \* argument: the time text
    hour,
    days_ahead,         \* also the day loop variable of check_availability
    click_pos,          \* [x, y] of the requested cell; 0 stands for null
    result,             \* returned (success, message)
    \* --- check_availability()
    alt_start_hour,     \* ALT_START_HOUR
    target_start_hour,  \* TARGET_START_HOUR
    page_columns,       \* courts whose column header the page lets a script resolve
    page_rows,          \* hours whose row label the page lets a script resolve
    page_blocks,        \* occupied blocks on the day view scanned last
    booking_data,       \* what the scan (page.evaluate) returned last
    all_results,        \* one [date, results] entry per day scanned, in order
    buttons,            \* values of the booking buttons of the multi-day message
    \* --- slack_server.py
    signing_secret,     \* SLACK_SIGNING_SECRET
    request,            \* the inbound request being handled (or the last one)
    hstate,             \* where handle_slack_action stands with it
    response,           \* the HTTP response returned for it
    served,             \* requests received so far
    workers,            \* the do_booking threads started so far, in order
    posts               \* messages posted to the response URL: [worker, kind]

slackVars == <<slack_webhook_url, slack_post, slack_sent>>
engineVars == <<session_file, clock, pc, trace, message, page_day, page_content, day, btn_text>>
runCfg == <<target_courts, wait_enabled, days_ahead_limit>>
runTime == <<now_manila, target_date_obj, slept>>
runLoop == <<click_positions, idx, booked_successfully, court_results>>
runVars == <<runCfg, runTime, runLoop>>
directArgs == <<target_date, target_court, target_time>>
directVars == <<directArgs, hour, click_pos, result>>
scanCfg == <<alt_start_hour, target_start_hour, page_columns, page_rows>>
checkVars == <<scanCfg, page_blocks, booking_data, all_results, buttons>>
gwVars == <<signing_secret, request, hstate, response, served, workers, posts>>
notRun == <<directVars, days_ahead, checkVars, gwVars>>
notDirect == <<runVars, checkVars, gwVars>>
notCheck == <<runCfg, runTime, runLoop, directVars, gwVars>>
notGateway == <<engineVars, runVars, directVars, days_ahead, checkVars>>
vars == <<entry, slackVars, engineVars, runVars, directVars, days_ahead, checkVars, gwVars>>

\* ------------------------------------------------------------- helpers
\* abs() and Math.abs()
Abs(x) == IF x < 0 THEN 0 - x ELSE x

Ev(kind, i) == [kind |-> kind, idx |-> i]

Kinds(k) == {n \in 1..Len(trace) : trace[n].kind = k}

IsSpace(ch) == ch = " "

RECURSIVE LStrip(_)
LStrip(s) == IF s # <<>> /\ IsSpace(Head(s)) THEN LStrip(Tail(s)) ELSE s

RECURSIVE RStrip(_)
RStrip(s) ==
    IF s # <<>> /\ IsSpace(s[Len(s)]) THEN RStrip(SubSeq(s, 1, Len(s) - 1)) ELSE s

\* str.strip()
Strip(s) == RStrip(LStrip(s))

\* Playwright :has-text("..."): the element's text contains the string
HasText(text, sub) ==
    \E i \in 1..(Len(text) - Len(sub) + 1) : SubSeq(text, i, i + Len(sub) - 1) = sub

\* Faulty variant of IsBookButton: the has-text match alone decides.
IsBookButtonLoose(text) == HasText(text, BOOK)

\* btn_text.strip() == "Book"
IsBookButton(text) == Strip(text) = BOOK

LoginMarkers == {"USER MODE", "Profile", "VISITOR MODE", ">LOG IN<"}

\* "USER MODE" in page_content or "Profile" in page_content
is_logged_in(content) == "USER MODE" \in content \/ "Profile" \in content

\* "VISITOR MODE" in page_content or ">LOG IN<" in page_content
is_visitor(content) == "VISITOR MODE" \in content \/ ">LOG IN<" \in content

NOT_LOGGED_IN == "WARNING: Not logged in! Please run: python3 sniper.py --setup"
NO_SESSION == "No saved session. Run 'python sniper.py --setup' first."
BOOKING_CONFIRMED == "BOOKING CONFIRMED!"
NOT_COMPLETED == "BOOKING NOT COMPLETED"
CHECK_COMPLETE == "CHECK COMPLETE"
TARGET_DATE_TEXT == "target day name or date"

\* datetime comparison current_time >= target_wait_time
TimeGE(a, b) == a.day > b.day \/ (a.day = b.day /\ (a.late \/ ~b.late))

\* now_manila.replace(hour=23, minute=59, second=59, microsecond=500000)
target_wait_time == [day |-> now_manila.day, late |-> TRUE]

\* Set of candidate lists: every non-empty sequence of courts up to MaxCands
CandidateLists == UNION {[1..n -> Courts] : n \in 1..MaxCands}

NoTime == [day |-> 0, late |-> FALSE]

DefaultCourts == <<"Wood 1", "Wood 2">>

\* ------------------------------------------------------------- text
\* Texts are character sequences; the operators below do what the str methods
\* and the date formats do on the characters the program handles.
Digit == <<"0", "1", "2", "3", "4", "5", "6", "7", "8", "9">>

IsDigit(ch) == \E i \in 1..Len(Digit) : Digit[i] = ch

DigitVal(ch) == (CHOOSE i \in 1..Len(Digit) : Digit[i] = ch) - 1

\* str(n) and JavaScript's number-to-string, for n >= 0
RECURSIVE str(_)
str(n) == IF n < Len(Digit) THEN <<Digit[n + 1]>>
          ELSE str(n \div Len(Digit)) \o <<Digit[(n % Len(Digit)) + 1]>>

\* int(text) accepts a non-empty run of digits here (signs, blanks and
\* underscores do not occur in the texts of the model); anything else raises
IsInt(text) == text # <<>> /\ \A i \in 1..Len(text) : IsDigit(text[i])

RECURSIVE int(_)
int(text) == IF text = <<>> THEN 0
             ELSE int(SubSeq(text, 1, Len(text) - 1)) * Len(Digit) + DigitVal(text[Len(text)])

\* text.replace(ch, "")
RECURSIVE Remove(_, _)
Remove(text, ch) ==
    IF text = <<>> THEN <<>>
    ELSE (IF Head(text) = ch THEN <<>> ELSE <<Head(text)>>) \o Remove(Tail(text), ch)

UpperOf(ch) == CASE ch = "a" -> "A" [] ch = "p" -> "P" [] ch = "m" -> "M" [] OTHER -> ch

\* text.upper()
upper(text) == [i \in 1..Len(text) |-> UpperOf(text[i])]

\* text.split(sep) for a one-character separator
RECURSIVE split(_, _)
split(text, sep) ==
    IF \A i \in 1..Len(text) : text[i] # sep THEN <<text>>
    ELSE LET k == CHOOSE i \in 1..Len(text) :
                      text[i] = sep /\ \A j \in 1..(i - 1) : text[j] # sep
         IN <<SubSeq(text, 1, k - 1)>> \o split(SubSeq(text, k + 1, Len(text)), sep)

AM == <<"A", "M">>
PM == <<"P", "M">>
WOOD_1 == <<"W", "o", "o", "d", " ", "1">>
WOOD_2 == <<"W", "o", "o", "d", " ", "2">>

\* the text of a court name
CourtText(court) == IF court = "Wood 1" THEN WOOD_1 ELSE WOOD_2

\* f"{hour_12}:00 {period}"
TimeLabel(n, per) == str(n) \o <<":", "0", "0", " ">> \o per

\* time texts a caller can pass: labels the bot emits, a label without a
\* number, and a lower-case label without the blank
DirectTimes ==
    {TimeLabel(7, PM), TimeLabel(12, AM), TimeLabel(12, PM),
     <<"x", ":", "0", "0", " ", "P", "M">>, <<"7", ":", "0", "0", "p", "m">>,
     TimeLabel(13, PM), <<"7", ":", "0", "0">>}

\* Lines 889-897: time_clean, int(time_clean.split(":")[0]), AM/PM adjustment
ParseHour(target) ==
    LET time_clean == upper(Remove(target, " "))
        head == split(time_clean, ":")[1]
    IN  IF ~IsInt(head) THEN [ok |-> FALSE, hour |-> 0]
        ELSE IF HasText(time_clean, PM) /\ int(head) # 12
             THEN [ok |-> TRUE, hour |-> int(head) + 12]
        ELSE IF HasText(time_clean, AM) /\ int(head) = 12
             THEN [ok |-> TRUE, hour |-> 0]
        ELSE [ok |-> TRUE, hour |-> int(head)]

\* ------------------------------------------------------------- dates
\* Day 0 of the model clock is 2026-01-30; the calendar is modelled over
\* January and February 2026, which holds every date the model handles.
YEAR == 2026
EPOCH_DAY == 30
JANUARY_DAYS == 31
FEBRUARY_DAYS == 28

\* the calendar date of a day number: now + timedelta(days=n)
DateOf(n) ==
    IF EPOCH_DAY + n <= JANUARY_DAYS THEN [month |-> 1, day |-> EPOCH_DAY + n]
    ELSE [month |-> 2, day |-> EPOCH_DAY + n - JANUARY_DAYS]

\* zero-padded two-digit field of %m and %d
Pad2(n) == IF n < Len(Digit) THEN <<"0">> \o str(n) ELSE str(n)

\* date.strftime("%Y-%m-%d")
strftime(n) ==
    str(YEAR) \o <<"-">> \o Pad2(DateOf(n).month) \o <<"-">> \o Pad2(DateOf(n).day)

\* datetime.strptime(text, "%Y-%m-%d"): ok = FALSE when it raises ValueError
strptime(text) ==
    LET parts == split(text, "-") IN
    IF Len(parts) # 3 \/ \E i \in 1..3 : ~IsInt(parts[i]) \/ Len(parts[i]) > (IF i = 1 THEN 4 ELSE 2)
    THEN [ok |-> FALSE, day |-> 0]
    ELSE LET y == int(parts[1])
             mo == int(parts[2])
             d == int(parts[3])
         IN  IF Len(parts[1]) = 4 /\ y = YEAR /\ mo = 1 /\ d \in 1..JANUARY_DAYS
             THEN [ok |-> TRUE, day |-> d - EPOCH_DAY]
             ELSE IF Len(parts[1]) = 4 /\ y = YEAR /\ mo = 2 /\ d \in 1..FEBRUARY_DAYS
             THEN [ok |-> TRUE, day |-> d + JANUARY_DAYS - EPOCH_DAY]
             ELSE [ok |-> FALSE, day |-> 0]

Result(ok, msg) == [success |-> ok, message |-> msg]
NoResult == Result(FALSE, "")

BAD_TIME == "Could not parse time"
BAD_DATE == "Could not parse date"
PAST_DATE == "Date is in the past"
BEYOND_LIMIT == "Date is more than 4 days ahead (booking limit)"
NO_POSITION == "Could not find position"
BOOKED_OK == "Successfully booked"
MAYBE_BOOKED == "Slot may already be booked"
BOOKING_ERROR == "Booking error"

\* ------------------------------------------------------------- clock
\* Wall-clock time passes while the engine can still read it or load a page.
TimeSensitive ==
    \/ /\ entry = "run"
       /\ pc \in {"start", "login_check", "login_decide", "calc", "wait", "load"}
    \/ /\ entry = "direct"
       /\ pc \in {"start", "launch", "goto"}
    \/ /\ entry = "check"
       /\ pc \in {"start", "goto"}

Tick ==
    /\ TimeSensitive
    /\ \/ /\ ~clock.late
          /\ clock' = [clock EXCEPT !.late = TRUE]
       \/ /\ clock.late
          /\ clock.day < MaxDay
          /\ clock' = [day |-> clock.day + 1, late |-> FALSE]
    /\ UNCHANGED <<entry, slackVars, notRun, session_file, pc, trace, message, page_day, page_content, day,
                   btn_text, runVars>>

\* ------------------------------------------------------------- notification
WEBHOOK == "https://hooks.slack.com/services/T/B/X"

\* How requests.post can go: a status code, or an exception
PostOutcomes == {"200", "500", "timeout", "unreachable"}

\* Faulty variant of send_slack_message: the exceptions of the POST escape.
send_slack_message_uncaught(url, outcome) ==
    IF url = "" THEN "False"
    ELSE IF outcome \in {"timeout", "unreachable"} THEN "raise"
    ELSE IF outcome = "200" THEN "True"
    ELSE "False"

\* Lines 67-91: "True", "False", or "raise" if an exception left the function
send_slack_message(url, outcome) ==
    IF url = "" THEN "False"
    ELSE IF outcome \in {"timeout", "unreachable"} THEN "False"
    ELSE IF outcome = "200" THEN "True"
    ELSE "False"

\* The notification step of run() and check_availability: call
\* send_slack_message and go on to the end of the function, unless it raised
Notify ==
    \E outcome \in PostOutcomes :
        /\ slack_post' = IF slack_webhook_url = "" THEN "skipped" ELSE outcome
        /\ IF send_slack_message(slack_webhook_url, outcome) = "raise"
           THEN /\ pc' = "crashed"
                /\ UNCHANGED slack_sent
           ELSE /\ slack_sent' = send_slack_message(slack_webhook_url, outcome)
                /\ pc' = "done"

\* ------------------------------------------------------------- run()
\* Lines 488-523: launch (with or without a stored session) and load the page.
run_open_landing ==
    /\ entry = "run" /\ pc = "start"
    /\ trace' = Append(trace, Ev("goto", 0))
    /\ page_day' = clock.day
    /\ pc' = "login_check"
    /\ UNCHANGED <<entry, slackVars, notRun, session_file, clock, message, page_content, day, btn_text,
                   runVars>>

\* Lines 525-528: page_content = await page.content()
run_read_landing ==
    /\ entry = "run" /\ pc = "login_check"
    /\ \E content \in SUBSET LoginMarkers : page_content' = content
    /\ pc' = "login_decide"
    /\ UNCHANGED <<entry, slackVars, notRun, session_file, clock, trace, message, page_day, day, btn_text,
                   runVars>>

\* Faulty variant of run_check_login: the login test is missing.
run_check_login_skipped ==
    /\ entry = "run" /\ pc = "login_decide"
    /\ pc' = "calc"
    /\ UNCHANGED <<entry, slackVars, notRun, session_file, clock, trace, message, page_day,
                   page_content, day, btn_text, runVars>>

\* Lines 530-543: abort when the page shows a visitor signal and no user signal.
run_check_login ==
    /\ entry = "run" /\ pc = "login_decide"
    /\ IF is_visitor(page_content) /\ ~is_logged_in(page_content)
       THEN /\ pc' = "done"
            /\ message' = NOT_LOGGED_IN
       ELSE /\ pc' = "calc"
            /\ UNCHANGED message
    /\ UNCHANGED <<entry, slackVars, notRun, session_file, clock, trace, page_day, page_content, day,
                   btn_text, runVars>>

\* Faulty variant of run_calc_target: the target is one day short.
run_calc_target_day_short ==
    /\ entry = "run" /\ pc = "calc"
    /\ now_manila' = clock
    /\ target_date_obj' = clock.day + days_ahead_limit - 1
    /\ pc' = IF wait_enabled THEN "wait" ELSE "load"
    /\ UNCHANGED <<entry, slackVars, notRun, session_file, clock, trace, message, page_day, page_content,
                   day, btn_text, runCfg, slept, runLoop>>

\* Lines 545-554: target date = now (Manila) + DAYS_AHEAD_LIMIT.
run_calc_target ==
    /\ entry = "run" /\ pc = "calc"
    /\ now_manila' = clock
    /\ target_date_obj' = clock.day + days_ahead_limit
    /\ pc' = IF wait_enabled THEN "wait" ELSE "load"
    /\ UNCHANGED <<entry, slackVars, notRun, session_file, clock, trace, message, page_day, page_content,
                   day, btn_text, runCfg, slept, runLoop>>

\* Faulty variant of run_wait: the loop is left without looking at the time.
run_wait_skipped ==
    /\ entry = "run" /\ pc = "wait"
    /\ pc' = "load"
    /\ UNCHANGED <<entry, slackVars, notRun, session_file, clock, trace, message, page_day, page_content,
                   day, btn_text, runCfg, runTime, runLoop>>

\* Faulty variant of run_wait: the loop sleeps before it looks at the time.
run_wait_sleep_first ==
    /\ entry = "run" /\ pc = "wait"
    /\ slept' = TRUE
    /\ pc' = IF TimeGE(clock, target_wait_time) THEN "load" ELSE "wait"
    /\ UNCHANGED <<entry, slackVars, notRun, session_file, clock, trace, message, page_day, page_content,
                   day, btn_text, runCfg, now_manila, target_date_obj, runLoop>>

\* Lines 569-589: one pass of the wait loop: leave it, or sleep 0.1 s.
run_wait ==
    /\ entry = "run" /\ pc = "wait"
    /\ IF TimeGE(clock, target_wait_time)
       THEN pc' = "load" /\ UNCHANGED slept
       ELSE slept' = TRUE /\ UNCHANGED pc
    /\ UNCHANGED <<entry, slackVars, notRun, session_file, clock, trace, message, page_day, page_content,
                   day, btn_text, runCfg, now_manila, target_date_obj, runLoop>>

\* Lines 597-599: reload the booking page; the site opens on its current day.
run_load_target ==
    /\ entry = "run" /\ pc = "load"
    /\ trace' = Append(trace, Ev("goto", 0))
    /\ page_day' = clock.day
    /\ pc' = "day_view"
    /\ UNCHANGED <<entry, slackVars, notRun, session_file, clock, message, page_content, day, btn_text,
                   runVars>>

\* Lines 602-608: Day tab click, or the fixed-coordinate fallback click.
run_day_view ==
    /\ entry = "run" /\ pc = "day_view"
    /\ trace' = Append(trace, Ev("day_view", 0))
    /\ day' = 0
    /\ pc' = "advance"
    /\ UNCHANGED <<entry, slackVars, notRun, session_file, clock, message, page_day, page_content, btn_text,
                   runVars>>

\* Lines 614-625: for day in range(DAYS_AHEAD_LIMIT): click the next-day arrow
\* (the locator click or, when it raises, the coordinate click).
run_advance ==
    /\ entry = "run" /\ pc = "advance"
    /\ IF day < days_ahead_limit
       THEN /\ trace' = Append(trace, Ev("advance", 0))
            /\ page_day' = page_day + 1
            /\ day' = day + 1
            /\ UNCHANGED pc
       ELSE /\ pc' = "verify"
            /\ UNCHANGED <<trace, page_day, day>>
    /\ UNCHANGED <<entry, slackVars, notRun, session_file, clock, message, page_content, btn_text, runVars>>

\* Lines 627-638: re-read the page and compare the shown date with the target by
\* substring; either result only prints.  The day name can occur elsewhere in the
\* page and the "%B %d" form can differ from the page's, so both results are
\* possible whatever day is shown.
\* Faulty variant of run_verify_date: a mismatch ends the run.
run_verify_date_abort ==
    /\ entry = "run" /\ pc = "verify"
    /\ \E content \in SUBSET {TARGET_DATE_TEXT} :
        /\ page_content' = content
        /\ pc' = IF TARGET_DATE_TEXT \in content THEN "locate" ELSE "done"
    /\ UNCHANGED <<entry, slackVars, notRun, session_file, clock, trace, message, page_day, day, btn_text,
                   runVars>>

run_verify_date ==
    /\ entry = "run" /\ pc = "verify"
    /\ \E content \in SUBSET {TARGET_DATE_TEXT} : page_content' = content
    /\ pc' = "locate"
    /\ UNCHANGED <<entry, slackVars, notRun, session_file, clock, trace, message, page_day, day, btn_text,
                   runVars>>

\* getBoundingClientRect() of a court's column header
Column(court) ==
    IF court = "Wood 1" THEN [x |-> 200, width |-> 100, centerX |-> 250]
    ELSE [x |-> 300, width |-> 100, centerX |-> 350]

\* y of the row label of an hour
RowY(h) == 100 + 45 * h

\* Views of the day grid a locator can meet, as the columns and the hour rows
\* it can resolve: everything, one column only, one column with the 8 PM row
\* missing, and both columns with the 7 PM row missing
LocatorViews ==
    {<<Courts, {19, 20}>>, <<{"Wood 1"}, {19, 20}>>, <<{"Wood 2"}, {19}>>, <<Courts, {20}>>}

\* targetRowY = rect.y + 25 for the label of the target hour, else null
targetRowY(rows, targetHour) == IF targetHour \in rows THEN RowY(targetHour) + 25 ELSE 0

\* nextRowY = rect.y for the label of the following hour, else null
nextRowY(rows, targetHour) == IF targetHour + 1 \in rows THEN RowY(targetHour + 1) ELSE 0

\* Lines 711-714: if (targetRowY && nextRowY) targetRowY = (targetRowY + nextRowY) / 2
clickY(rows, targetHour) ==
    LET t == targetRowY(rows, targetHour)
        n == nextRowY(rows, targetHour)
    IN IF t # 0 /\ n # 0 THEN (t + n) \div 2 ELSE t

\* Lines 716-727: positions[courtName] = {x: court.centerX, y: targetRowY}
\* for the courts with a column, when the target row was found
positions(columns, rows, targetHour) ==
    [court \in {c \in columns : clickY(rows, targetHour) # 0} |->
        [x |-> Column(court).centerX, y |-> clickY(rows, targetHour)]]

\* Lines 640-739: the grid locator (page.evaluate): positions for the courts whose
\* column and target row were both found.
run_locate ==
    /\ entry = "run" /\ pc = "locate"
    /\ \E view \in LocatorViews :
        /\ page_columns' = view[1]
        /\ page_rows' = view[2]
        /\ click_positions' = positions(view[1], view[2], target_start_hour)
    /\ trace' = Append(trace, Ev("locate", 0))
    /\ idx' = 1
    /\ pc' = "loop"
    /\ UNCHANGED <<entry, slackVars, directVars, days_ahead, gwVars, alt_start_hour, target_start_hour,
                   page_blocks, booking_data, all_results, buttons, session_file, clock, message,
                   page_day, page_content, day, btn_text, runCfg, runTime, booked_successfully,
                   court_results>>

\* court_results[court_name] = {"available_times": [], "booked": False}
ResetResult(results, court) ==
    [c \in DOMAIN results \cup {court} |->
        IF c = court THEN [booked |-> FALSE] ELSE results[c]]

\* court_results[court_name]["booked"] = True
MarkBooked(results, court) == [results EXCEPT ![court] = [booked |-> TRUE]]

\* Faulty variant of run_next_candidate: the result entry of a court is
\* created only once its position is known to be resolved.
run_next_candidate_lazy_entry ==
    /\ entry = "run" /\ pc = "loop"
    /\ IF idx > Len(target_courts)
       THEN /\ pc' = "report"
            /\ UNCHANGED <<idx, court_results>>
       ELSE IF booked_successfully
            THEN pc' = "report" /\ UNCHANGED <<idx, court_results>>
            ELSE IF target_courts[idx] \notin DOMAIN click_positions
                 THEN idx' = idx + 1 /\ UNCHANGED <<pc, court_results>>
                 ELSE /\ court_results' = ResetResult(court_results, target_courts[idx])
                      /\ pc' = "slot" /\ UNCHANGED idx
    /\ UNCHANGED <<entry, slackVars, notRun, session_file, clock, trace, message, page_day, page_content,
                   day, btn_text, runCfg, runTime, click_positions, booked_successfully>>

\* Faulty variant of run_next_candidate: Escape is pressed for a skipped court too.
run_next_candidate_escape_on_skip ==
    /\ entry = "run" /\ pc = "loop"
    /\ IF idx > Len(target_courts)
       THEN /\ pc' = "report"
            /\ UNCHANGED <<idx, court_results, trace>>
       ELSE /\ court_results' = ResetResult(court_results, target_courts[idx])
            /\ IF booked_successfully
               THEN pc' = "report" /\ UNCHANGED <<idx, trace>>
               ELSE IF target_courts[idx] \notin DOMAIN click_positions
                    THEN /\ trace' = Append(trace, Ev("escape", idx))
                         /\ idx' = idx + 1 /\ UNCHANGED pc
                    ELSE pc' = "slot" /\ UNCHANGED <<idx, trace>>
    /\ UNCHANGED <<entry, slackVars, notRun, session_file, clock, message, page_day, page_content,
                   day, btn_text, runCfg, runTime, click_positions, booked_successfully>>

\* Lines 742-750: loop head: next candidate, break once booked, skip when the
\* court has no resolved position.
run_next_candidate ==
    /\ entry = "run" /\ pc = "loop"
    /\ IF idx > Len(target_courts)
       THEN /\ pc' = "report"
            /\ UNCHANGED <<idx, court_results>>
       ELSE /\ court_results' = ResetResult(court_results, target_courts[idx])
            /\ IF booked_successfully
               THEN pc' = "report" /\ UNCHANGED idx
               ELSE IF target_courts[idx] \notin DOMAIN click_positions
                    THEN idx' = idx + 1 /\ UNCHANGED pc
                    ELSE pc' = "slot" /\ UNCHANGED idx
    /\ UNCHANGED <<entry, slackVars, notRun, session_file, clock, trace, message, page_day, page_content,
                   day, btn_text, runCfg, runTime, click_positions, booked_successfully>>

\* Lines 754-759: page.mouse.click on the cell; it is outside every try block.
run_slot_click ==
    /\ entry = "run" /\ pc = "slot"
    /\ \/ /\ trace' = Append(trace, Ev("slot", idx))
          /\ pc' = "book_lookup"
       \/ /\ pc' = "crashed"
          /\ UNCHANGED trace
    /\ UNCHANGED <<entry, slackVars, notRun, session_file, clock, message, page_day, page_content, day,
                   btn_text, runVars>>

\* Faulty variant of run_book_lookup: a missing Book control ends the loop.
run_book_lookup_break ==
    /\ entry = "run" /\ pc = "book_lookup"
    /\ \/ /\ pc' = "report"
          /\ UNCHANGED btn_text
       \/ \E label \in {l \in Labels : HasText(l, BOOK)} :
            /\ btn_text' = label
            /\ pc' = IF IsBookButton(label) THEN "book_click" ELSE "escape"
    /\ UNCHANGED <<entry, slackVars, notRun, session_file, clock, trace, message, page_day, page_content,
                   day, runVars>>

\* Faulty variant of run_book_lookup: a control that is not the Book button
\* sends the loop straight to the next candidate.
run_book_lookup_skip_escape ==
    /\ entry = "run" /\ pc = "book_lookup"
    /\ \/ /\ pc' = "no_modal"
          /\ UNCHANGED <<btn_text, idx>>
       \/ \E label \in {l \in Labels : HasText(l, BOOK)} :
            /\ btn_text' = label
            /\ IF IsBookButton(label)
               THEN pc' = "book_click" /\ UNCHANGED idx
               ELSE pc' = "loop" /\ idx' = idx + 1
    /\ UNCHANGED <<entry, slackVars, notRun, session_file, clock, trace, message, page_day, page_content,
                   day, runCfg, runTime, click_positions, booked_successfully, court_results>>

\* Lines 762-768 and 805-807: wait_for_selector('button:has-text("Book")') and
\* the exact-label test on the control it returns.
run_book_lookup ==
    /\ entry = "run" /\ pc = "book_lookup"
    /\ \/ \* the lookup times out, or inner_text() raises: except branch
          /\ pc' = "no_modal"
          /\ UNCHANGED btn_text
       \/ \E label \in {l \in Labels : HasText(l, BOOK)} :
            /\ btn_text' = label
            /\ pc' = IF IsBookButton(label) THEN "book_click" ELSE "escape"
    /\ UNCHANGED <<entry, slackVars, notRun, session_file, clock, trace, message, page_day, page_content,
                   day, runVars>>

\* Lines 778-782: click the Book control; a raise lands in the except branch.
run_book_click ==
    /\ entry = "run" /\ pc = "book_click"
    /\ \/ /\ trace' = Append(trace, Ev("book", idx))
          /\ pc' = "confirm"
       \/ /\ pc' = "no_modal"
          /\ UNCHANGED trace
    /\ UNCHANGED <<entry, slackVars, notRun, session_file, clock, message, page_day, page_content, day,
                   btn_text, runVars>>

\* Faulty variant of run_confirm: the flag is not set and the loop goes on.
run_confirm_no_break ==
    /\ entry = "run" /\ pc = "confirm"
    /\ \/ trace' = Append(trace, Ev("confirm", idx))
       \/ UNCHANGED trace
    /\ court_results' = MarkBooked(court_results, target_courts[idx])
    /\ pc' = "escape"
    /\ UNCHANGED <<entry, slackVars, notRun, session_file, clock, message, page_day, page_content, day,
                   btn_text, runCfg, runTime, click_positions, idx, booked_successfully>>

\* Lines 784-804: look for "Confirm booking" and click it; a timeout or a raise
\* is caught by the inner except; then the court is marked booked and the loop
\* is left.
run_confirm ==
    /\ entry = "run" /\ pc = "confirm"
    /\ \/ trace' = Append(trace, Ev("confirm", idx))
       \/ UNCHANGED trace
    /\ booked_successfully' = TRUE
    /\ court_results' = MarkBooked(court_results, target_courts[idx])
    /\ pc' = "report"
    /\ UNCHANGED <<entry, slackVars, notRun, session_file, clock, message, page_day, page_content, day,
                   btn_text, runCfg, runTime, click_positions, idx>>

\* Lines 807-813: except branch: re-read the page; what it holds ("already",
\* "scheduled") only selects the line printed, so no marker of it is kept.
run_no_modal ==
    /\ entry = "run" /\ pc = "no_modal"
    /\ \/ /\ page_content' = {}
          /\ pc' = "escape"
       \/ /\ pc' = "crashed"
          /\ UNCHANGED page_content
    /\ UNCHANGED <<entry, slackVars, notRun, session_file, clock, trace, message, page_day, day, btn_text,
                   runVars>>

\* Faulty variant of run_escape: the page is loaded again to clear the dialog,
\* and the positions located before are kept.
run_escape_reload ==
    /\ entry = "run" /\ pc = "escape"
    /\ \/ /\ trace' = trace \o <<Ev("escape", idx), Ev("goto", 0)>>
          /\ idx' = idx + 1
          /\ pc' = "loop"
       \/ /\ pc' = "crashed"
          /\ UNCHANGED <<trace, idx>>
    /\ UNCHANGED <<entry, slackVars, notRun, session_file, clock, message, page_day, page_content, day,
                   btn_text, runCfg, runTime, click_positions, booked_successfully,
                   court_results>>

\* Lines 815-817: press Escape, then the next candidate.
run_escape ==
    /\ entry = "run" /\ pc = "escape"
    /\ \/ /\ trace' = Append(trace, Ev("escape", idx))
          /\ idx' = idx + 1
          /\ pc' = "loop"
       \/ /\ pc' = "crashed"
          /\ UNCHANGED <<trace, idx>>
    /\ UNCHANGED <<entry, slackVars, notRun, session_file, clock, message, page_day, page_content, day,
                   btn_text, runCfg, runTime, click_positions, booked_successfully,
                   court_results>>

\* Lines 819-866: report, send the Slack notification, close the context.
run_report ==
    /\ entry = "run" /\ pc = "report"
    /\ message' = IF booked_successfully THEN BOOKING_CONFIRMED ELSE NOT_COMPLETED
    /\ trace' = Append(trace, Ev("notify", 0))
    /\ Notify
    /\ UNCHANGED <<entry, slack_webhook_url, notRun, session_file, clock, page_day, page_content, day, btn_text,
                   runVars>>


\* ------------------------------------------------------------- book_slot_direct()
Return(ok, msg) ==
    /\ result' = Result(ok, msg)
    /\ pc' = "done"

\* Faulty variant of book_slot_direct_validate: the session test is missing.
book_slot_direct_validate_no_session_test ==
    /\ entry = "direct" /\ pc = "start"
    /\ IF ~ParseHour(target_time).ok
       THEN Return(FALSE, BAD_TIME) /\ UNCHANGED <<hour, days_ahead>>
       ELSE /\ hour' = ParseHour(target_time).hour
            /\ IF ~strptime(target_date).ok
               THEN Return(FALSE, BAD_DATE) /\ UNCHANGED days_ahead
               ELSE /\ days_ahead' = strptime(target_date).day - clock.day
                    /\ IF days_ahead' < 0
                       THEN Return(FALSE, PAST_DATE)
                       ELSE IF days_ahead' > DIRECT_LIMIT
                       THEN Return(FALSE, BEYOND_LIMIT)
                       ELSE pc' = "launch" /\ UNCHANGED result
    /\ UNCHANGED <<entry, slackVars, notDirect, session_file, clock, trace, message, page_day,
                   page_content, day, btn_text, directArgs, click_pos>>

\* Lines 884-912: session check, time parsing, date parsing and the horizon
\* test; nothing is awaited in between.
\* Faulty variant of book_slot_direct_validate: the booking page is loaded
\* before the arguments are validated.
book_slot_direct_validate_after_goto ==
    /\ entry = "direct" /\ pc = "start"
    /\ trace' = <<Ev("goto", 0)>>
    /\ IF ~session_file
       THEN Return(FALSE, NO_SESSION) /\ UNCHANGED <<hour, days_ahead>>
       ELSE IF ~ParseHour(target_time).ok
       THEN Return(FALSE, BAD_TIME) /\ UNCHANGED <<hour, days_ahead>>
       ELSE /\ hour' = ParseHour(target_time).hour
            /\ IF ~strptime(target_date).ok
               THEN Return(FALSE, BAD_DATE) /\ UNCHANGED days_ahead
               ELSE /\ days_ahead' = strptime(target_date).day - clock.day
                    /\ IF days_ahead' < 0
                       THEN Return(FALSE, PAST_DATE)
                       ELSE IF days_ahead' > DIRECT_LIMIT
                       THEN Return(FALSE, BEYOND_LIMIT)
                       ELSE pc' = "launch" /\ UNCHANGED result
    /\ UNCHANGED <<entry, slackVars, notDirect, session_file, clock, message, page_day,
                   page_content, day, btn_text, directArgs, click_pos>>

book_slot_direct_validate ==
    /\ entry = "direct" /\ pc = "start"
    /\ IF ~session_file
       THEN Return(FALSE, NO_SESSION) /\ UNCHANGED <<hour, days_ahead>>
       ELSE IF ~ParseHour(target_time).ok
       THEN Return(FALSE, BAD_TIME) /\ UNCHANGED <<hour, days_ahead>>
       ELSE /\ hour' = ParseHour(target_time).hour
            /\ IF ~strptime(target_date).ok
               THEN Return(FALSE, BAD_DATE) /\ UNCHANGED days_ahead
               ELSE /\ days_ahead' = strptime(target_date).day - clock.day
                    /\ IF days_ahead' < 0
                       THEN Return(FALSE, PAST_DATE)
                       ELSE IF days_ahead' > DIRECT_LIMIT
                       THEN Return(FALSE, BEYOND_LIMIT)
                       ELSE pc' = "launch" /\ UNCHANGED result
    /\ UNCHANGED <<entry, slackVars, notDirect, session_file, clock, trace, message, page_day,
                   page_content, day, btn_text, directArgs, click_pos>>

\* Lines 914-920: launch the browser and open a context on the stored session;
\* this is outside the try block.
book_slot_direct_launch ==
    /\ entry = "direct" /\ pc = "launch"
    /\ \/ pc' = "goto"
       \/ pc' = "raised"
    /\ UNCHANGED <<entry, slackVars, notDirect, session_file, clock, trace, message, page_day,
                   page_content, day, btn_text, directVars, days_ahead>>

\* Lines 923-926
book_slot_direct_goto ==
    /\ entry = "direct" /\ pc = "goto"
    /\ \/ /\ trace' = Append(trace, Ev("goto", 0))
          /\ page_day' = clock.day
          /\ pc' = "day_view"
       \/ /\ pc' = "error"
          /\ UNCHANGED <<trace, page_day>>
    /\ UNCHANGED <<entry, slackVars, notDirect, session_file, clock, message, page_content, day,
                   btn_text, directVars, days_ahead>>

\* Lines 928-934: Day tab click or the coordinate click; a raise goes to the
\* outer except
book_slot_direct_day_view ==
    /\ entry = "direct" /\ pc = "day_view"
    /\ \/ /\ trace' = Append(trace, Ev("day_view", 0))
          /\ day' = 0
          /\ pc' = "advance"
       \/ /\ pc' = "error"
          /\ UNCHANGED <<trace, day>>
    /\ UNCHANGED <<entry, slackVars, notDirect, session_file, clock, message, page_day,
                   page_content, btn_text, directVars, days_ahead>>

\* Lines 936-945: for _ in range(days_ahead)
book_slot_direct_advance ==
    /\ entry = "direct" /\ pc = "advance"
    /\ IF day < days_ahead
       THEN /\ trace' = Append(trace, Ev("advance", 0))
            /\ page_day' = page_day + 1
            /\ day' = day + 1
            /\ UNCHANGED pc
       ELSE /\ pc' = "locate"
            /\ UNCHANGED <<trace, page_day, day>>
    /\ UNCHANGED <<entry, slackVars, notDirect, session_file, clock, message, page_content,
                   btn_text, directVars, days_ahead>>

\* Lines 953-963: courtCenterX = rect.x + rect.width / 2 of the header naming
\* the court ("Wood " + the last word of target_court), else null
courtCenterX(columns, court) == IF court \in columns THEN Column(court).centerX ELSE 0

\* Lines 947-990: the grid locator for one court and hour; without a position
\* the context is closed and the failure returned, and a raise of that close
\* goes to the outer except
book_slot_direct_locate ==
    /\ entry = "direct" /\ pc = "locate"
    /\ trace' = Append(trace, Ev("locate", 0))
    /\ \E view \in LocatorViews :
        /\ page_columns' = view[1]
        /\ page_rows' = view[2]
        /\ click_pos' = [x |-> courtCenterX(view[1], target_court), y |-> targetRowY(view[2], hour)]
    /\ IF click_pos'.x # 0 /\ click_pos'.y # 0
       THEN pc' = "slot" /\ UNCHANGED result
       ELSE \/ Return(FALSE, NO_POSITION)
            \/ pc' = "error" /\ UNCHANGED result
    /\ UNCHANGED <<entry, slackVars, runVars, gwVars, alt_start_hour, target_start_hour, page_blocks,
                   booking_data, all_results, buttons, session_file, clock, message, page_day,
                   page_content, day, btn_text, directArgs, hour, days_ahead>>

\* Lines 992-994
book_slot_direct_slot_click ==
    /\ entry = "direct" /\ pc = "slot"
    /\ \/ /\ trace' = Append(trace, Ev("slot", 1))
          /\ pc' = "book_lookup"
       \/ /\ pc' = "error"
          /\ UNCHANGED trace
    /\ UNCHANGED <<entry, slackVars, notDirect, session_file, clock, message, page_day,
                   page_content, day, btn_text, directVars, days_ahead>>

\* Lines 996-1001 and 1017-1018
book_slot_direct_book_lookup ==
    /\ entry = "direct" /\ pc = "book_lookup"
    /\ \/ /\ pc' = "fallthrough"
          /\ UNCHANGED btn_text
       \/ \E label \in {l \in Labels : HasText(l, BOOK)} :
            /\ btn_text' = label
            /\ pc' = IF IsBookButton(label) THEN "book_click" ELSE "fallthrough"
    /\ UNCHANGED <<entry, slackVars, notDirect, session_file, clock, trace, message, page_day,
                   page_content, day, directVars, days_ahead>>

\* Lines 1002-1003
book_slot_direct_book_click ==
    /\ entry = "direct" /\ pc = "book_click"
    /\ \/ /\ trace' = Append(trace, Ev("book", 1))
          /\ pc' = "confirm"
       \/ /\ pc' = "fallthrough"
          /\ UNCHANGED trace
    /\ UNCHANGED <<entry, slackVars, notDirect, session_file, clock, message, page_day,
                   page_content, day, btn_text, directVars, days_ahead>>

\* Lines 1005-1016: success is returned only from inside the confirm branch;
\* the inner except swallows a failed lookup or click, and also a raise of the
\* screenshot or of the close that follow the click
book_slot_direct_confirm ==
    /\ entry = "direct" /\ pc = "confirm"
    /\ \/ /\ trace' = Append(trace, Ev("confirm", 1))
          /\ Return(TRUE, BOOKED_OK)
       \/ /\ trace' = Append(trace, Ev("confirm", 1))
          /\ pc' = "fallthrough"
          /\ UNCHANGED result
       \/ /\ pc' = "fallthrough"
          /\ UNCHANGED <<trace, result>>
    /\ UNCHANGED <<entry, slackVars, notDirect, session_file, clock, message, page_day,
                   page_content, day, btn_text, directArgs, hour, click_pos, days_ahead>>

\* Lines 1020-1021: close the context and return; a raise of the close goes to
\* the outer except
book_slot_direct_fallthrough ==
    /\ entry = "direct" /\ pc = "fallthrough"
    /\ \/ Return(FALSE, MAYBE_BOOKED)
       \/ pc' = "error" /\ UNCHANGED result
    /\ UNCHANGED <<entry, slackVars, notDirect, session_file, clock, trace, message, page_day,
                   page_content, day, btn_text, directArgs, hour, click_pos, days_ahead>>

\* Lines 1023-1025: the outer except closes the context and returns the
\* error; a raise of that close leaves the function
book_slot_direct_error ==
    /\ entry = "direct" /\ pc = "error"
    /\ \/ Return(FALSE, BOOKING_ERROR)
       \/ pc' = "raised" /\ UNCHANGED result
    /\ UNCHANGED <<entry, slackVars, notDirect, session_file, clock, trace, message, page_day,
                   page_content, day, btn_text, directArgs, hour, click_pos, days_ahead>>

\* ------------------------------------------------------------- check_availability()
\* Lines 1063-1096: session check, browser launch, now_manila
check_availability_session ==
    /\ entry = "check" /\ pc = "start"
    /\ IF ~session_file
       THEN /\ message' = NO_SESSION
            /\ pc' = "done"
            /\ UNCHANGED now_manila
       ELSE /\ now_manila' = clock
            /\ pc' = "goto"
            /\ UNCHANGED message
    /\ UNCHANGED <<entry, slackVars, session_file, clock, trace, page_day, page_content, day,
                   btn_text, runCfg, target_date_obj, slept, runLoop, directVars,
                   days_ahead, checkVars, gwVars>>

\* Lines 1098-1111: load the page once and switch to the day view
check_availability_goto ==
    /\ entry = "check" /\ pc = "goto"
    /\ trace' = <<Ev("goto", 0), Ev("day_view", 0)>>
    /\ page_day' = clock.day
    /\ days_ahead' = 0
    /\ pc' = "days"
    /\ UNCHANGED <<entry, slackVars, notCheck, session_file, clock, message, page_content, day,
                   btn_text, checkVars>>

\* --- the scan of one day view
LAST_HOUR == 23
BUTTON_LIMIT == 5

Block(cx, top, bot) == [centerX |-> cx, y |-> top, bottom |-> bot]

\* Occupied blocks a day view can show: a booking of Wood 1 from 19:00 to
\* 20:00, and a block from 12:00 to 13:00 centred on the border of the two
\* columns.
BlockPool == {Block(250, RowY(19), RowY(20)), Block(300, RowY(12), RowY(13))}

\* Math.abs(block.centerX - court.centerX) < court.width * 0.7
xOverlap(block, court) == 10 * Abs(block.centerX - Column(court).centerX) < 7 * Column(court).width

\* block.y <= timeRow.y + 20 && block.bottom > timeRow.y
yOverlap(block, h) == block.y <= RowY(h) + 20 /\ block.bottom > RowY(h)

\* Faulty variant of isBooked: the vertical test is missing.
isBooked_any_row(court, h, blocks) == \E block \in blocks : xOverlap(block, court)

\* Lines 1248-1261
isBooked(court, h, blocks) == \E block \in blocks : xOverlap(block, court) /\ yOverlap(block, h)

\* Faulty variant of hourLabel: the hour is reduced modulo 12, so midnight and
\* noon share a label.
hourLabel_twelve(h) == str(h % 12) \o <<":", "0", "0", " ">> \o (IF h > 12 THEN PM ELSE AM)

\* Line 1263: hour > 12 ? (hour - 12) + ':00 PM' : hour + ':00 AM'
hourLabel(h) == IF h > 12 THEN str(h - 12) \o <<":", "0", "0", " ">> \o PM
                ELSE str(h) \o <<":", "0", "0", " ">> \o AM

\* the labels pushed for the hours from h on whose slot has the given state
RECURSIVE SlotLabels(_, _, _)
SlotLabels(slots, h, state) ==
    IF h > LAST_HOUR THEN <<>>
    ELSE (IF h \in DOMAIN slots /\ slots[h] = state THEN <<hourLabel(h)>> ELSE <<>>)
         \o SlotLabels(slots, h + 1, state)

\* Lines 1229-1275: results[courtName] of one scan
CourtData(court, blocks) ==
    LET checked == IF court \in page_columns
                   THEN {h \in alt_start_hour..LAST_HOUR : h \in page_rows}
                   ELSE {}
        slots == [h \in checked |-> isBooked(court, h, blocks)]
    IN  [slots |-> slots,
         availableSlots |-> SlotLabels(slots, alt_start_hour, FALSE),
         bookedSlots |-> SlotLabels(slots, alt_start_hour, TRUE),
         isTargetBooked |-> target_start_hour \in DOMAIN slots /\ slots[target_start_hour]]

\* Lines 1143-1283: the value of page.evaluate
ScanPage(blocks) == [court \in Courts |-> CourtData(court, blocks)]

\* Lines 1137-1139 and 1294-1314: day_results, in the order of the court list
DayResults(data) ==
    [i \in 1..Len(target_courts) |->
        [court |-> target_courts[i],
         available |-> data[target_courts[i]].availableSlots,
         booked |-> data[target_courts[i]].bookedSlots,
         has_target |-> ~data[target_courts[i]].isTargetBooked]]

\* Faulty variant of PassEvents: after the scan the target cell of the first
\* court is clicked to probe it.
PassEvents_probing(days) ==
    (IF days > 0 THEN <<Ev("advance", 0)>> ELSE <<>>) \o <<Ev("scan", days), Ev("slot", 1)>>

\* Lines 1119-1143: the UI actions of one pass: the advance click on the days
\* after today, then the page.evaluate of the scan
PassEvents(days) ==
    (IF days > 0 THEN <<Ev("advance", 0)>> ELSE <<>>) \o <<Ev("scan", days)>>

\* Faulty variant of check_availability_day: the loop is range(DAYS_AHEAD_LIMIT).
check_availability_day_short ==
    /\ entry = "check" /\ pc = "days"
    /\ IF days_ahead < days_ahead_limit
       THEN /\ trace' = trace \o PassEvents(days_ahead)
            /\ page_day' = IF days_ahead > 0 THEN page_day + 1 ELSE page_day
            /\ \E blocks \in SUBSET BlockPool :
                /\ page_blocks' = blocks
                /\ booking_data' = ScanPage(blocks)
                /\ all_results' = Append(all_results,
                                         [date |-> strftime(now_manila.day + days_ahead),
                                          results |-> DayResults(ScanPage(blocks))])
            /\ days_ahead' = days_ahead + 1
            /\ UNCHANGED pc
       ELSE /\ pc' = "notify"
            /\ UNCHANGED <<trace, page_day, page_blocks, booking_data, all_results, days_ahead>>
    /\ UNCHANGED <<entry, slackVars, notCheck, session_file, clock, message, page_content, day,
                   btn_text, scanCfg, buttons>>

\* Lines 1113-1322: one pass of for days_ahead in range(DAYS_AHEAD_LIMIT + 1):
\* advance (after the first day), scan, store the day's results
check_availability_day ==
    /\ entry = "check" /\ pc = "days"
    /\ IF days_ahead <= days_ahead_limit
       THEN /\ trace' = trace \o PassEvents(days_ahead)
            /\ page_day' = IF days_ahead > 0 THEN page_day + 1 ELSE page_day
            /\ \E blocks \in SUBSET BlockPool :
                /\ page_blocks' = blocks
                /\ booking_data' = ScanPage(blocks)
                /\ all_results' = Append(all_results,
                                         [date |-> strftime(now_manila.day + days_ahead),
                                          results |-> DayResults(ScanPage(blocks))])
            /\ days_ahead' = days_ahead + 1
            /\ UNCHANGED pc
       ELSE /\ pc' = "notify"
            /\ UNCHANGED <<trace, page_day, page_blocks, booking_data, all_results, days_ahead>>
    /\ UNCHANGED <<entry, slackVars, notCheck, session_file, clock, message, page_content, day,
                   btn_text, scanCfg, buttons>>

\* --- the multi-day message
RECURSIVE Concat(_)
Concat(seqs) == IF seqs = <<>> THEN <<>> ELSE Head(seqs) \o Concat(Tail(seqs))

\* seq[:n]
Take(seq, n) == SubSeq(seq, 1, IF Len(seq) < n THEN Len(seq) ELSE n)

\* Lines 160-165
target_display ==
    IF target_start_hour < 12 THEN str(target_start_hour) \o <<":", "0", "0", " ">> \o AM
    ELSE IF target_start_hour = 12 THEN TimeLabel(12, PM)
    ELSE str(target_start_hour - 12) \o <<":", "0", "0", " ">> \o PM

\* Lines 189-203: the value of the button
make_button(court, time_slot, date_str) ==
    date_str \o <<"|">> \o CourtText(court) \o <<"|">> \o time_slot

Slot(court, time, date) == [court |-> court, time |-> time, date |-> date]

\* Lines 209-221
target_slots(date, day_results) ==
    Concat([i \in 1..Len(day_results) |->
        IF day_results[i].has_target
        THEN <<Slot(day_results[i].court, target_display, date)>> ELSE <<>>])

\* Lines 223-231
other_slots(date, day_results) ==
    Concat([i \in 1..Len(day_results) |->
        LET others == SelectSeq(day_results[i].available, LAMBDA slot : slot # target_display)
        IN  [j \in 1..Len(others) |-> Slot(day_results[i].court, others[j], date)]])

\* Lines 255-280: the buttons of one day, target time first
DayButtons(date, day_results) ==
    LET shown == Take(target_slots(date, day_results), BUTTON_LIMIT)
                 \o Take(other_slots(date, day_results), BUTTON_LIMIT)
    IN  [k \in 1..Len(shown) |-> make_button(shown[k].court, shown[k].time, shown[k].date)]

\* Lines 205-280: the button values of the whole message
format_multi_day_availability(results) ==
    Concat([d \in 1..Len(results) |-> DayButtons(results[d].date, results[d].results)])

\* Lines 1324-1333
check_availability_notify ==
    /\ entry = "check" /\ pc = "notify"
    /\ buttons' = format_multi_day_availability(all_results)
    /\ trace' = Append(trace, Ev("notify", 0))
    /\ message' = CHECK_COMPLETE
    /\ Notify
    /\ UNCHANGED <<entry, slack_webhook_url, notCheck, session_file, clock, page_day, page_content, day,
                   btn_text, days_ahead, scanCfg, page_blocks, booking_data, all_results>>

\* ------------------------------------------------------------- slack_server.py
\* HMAC-SHA256 as an ideal MAC: the digest names exactly the key and the
\* message ("v0:<timestamp>:<body>") it was computed from.
Sign(key, ts, body) == [v |-> "v0=", key |-> key, ts |-> ts, body |-> body]

Timestamp(isnum, age) == [numeric |-> isnum, age |-> age]
\* age = time.time() - int(timestamp), in seconds
Timestamps ==
    {Timestamp(TRUE, a) : a \in {0 - FIVE_MINUTES - 1, 0, FIVE_MINUTES, FIVE_MINUTES + 1}}
    \cup {Timestamp(FALSE, 0)}

Action(isbook, n) == [book |-> isbook, parts |-> n]
Payload(isjson, type, actions) == [json |-> isjson, type |-> type, actions |-> actions]
NotJson == Payload(FALSE, "", <<>>)
Tampered == Payload(TRUE, "tampered", <<>>)
Payloads ==
    {NotJson,
     Payload(TRUE, "view_submission", <<Action(TRUE, 3)>>),
     Payload(TRUE, "block_actions", <<>>),
     Payload(TRUE, "block_actions", <<Action(TRUE, 3)>>),
     Payload(TRUE, "block_actions", <<Action(FALSE, 3)>>),
     Payload(TRUE, "block_actions", <<Action(TRUE, 2), Action(TRUE, 3), Action(TRUE, 3)>>)}

NoSignature == [v |-> "", key |-> "", ts |-> Timestamp(FALSE, 0), body |-> NotJson]
SECRET == "s3cret"

\* What a sender can put in X-Slack-Signature for a given timestamp and body
Signatures(ts, body) ==
    {Sign(SECRET, ts, body), Sign("attacker", ts, body), Sign(SECRET, ts, Tampered),
     NoSignature}

Requests ==
    UNION {{[ts |-> ts, payload |-> b, sig |-> sg] : sg \in Signatures(ts, b)} :
              ts \in Timestamps, b \in Payloads}

NoRequest == [ts |-> Timestamp(FALSE, 0), payload |-> NotJson, sig |-> NoSignature]

\* Faulty variant of verify_slack_signature: the digest is not compared.
verify_unsigned(secret, req) ==
    IF secret = "" THEN "true"
    ELSE IF ~req.ts.numeric THEN "raise"
    ELSE IF Abs(req.ts.age) > FIVE_MINUTES THEN "false"
    ELSE "true"

\* Faulty variant of verify_slack_signature: the timestamp window is not tested.
verify_any_age(secret, req) ==
    IF secret = "" THEN "true"
    ELSE IF ~req.ts.numeric THEN "raise"
    ELSE IF Sign(secret, req.ts, req.payload) = req.sig THEN "true"
    ELSE "false"

\* Lines 55-76: "true", "false", or "raise" when int(timestamp) raises
verify_slack_signature(secret, req) ==
    IF secret = "" THEN "true"
    ELSE IF ~req.ts.numeric THEN "raise"
    ELSE IF Abs(req.ts.age) > FIVE_MINUTES THEN "false"
    ELSE IF Sign(secret, req.ts, req.payload) = req.sig THEN "true"
    ELSE "false"

\* Lines 147-160: the first action of a block_actions payload whose action_id
\* starts with "book_slot_" and whose value has three fields; 0 if none
\* Faulty variant of Bookable: the action_id prefix is not tested.
Bookable_any_action(payload) ==
    IF payload.type # "block_actions" THEN 0
    ELSE LET hits == {i \in 1..Len(payload.actions) : payload.actions[i].parts = 3}
         IN IF hits = {} THEN 0 ELSE CHOOSE i \in hits : \A j \in hits : i <= j

Bookable(payload) ==
    IF payload.type # "block_actions" THEN 0
    ELSE LET hits == {i \in 1..Len(payload.actions) :
                         payload.actions[i].book /\ payload.actions[i].parts = 3}
         IN IF hits = {} THEN 0 ELSE CHOOSE i \in hits : \A j \in hits : i <= j

Worker(at, ok) == [pc |-> at, success |-> ok]

\* Lines 135-167: verify, parse, and start the background thread for the first
\* bookable action (run_booking_in_background returns once thread.start() has)
handle_slack_action ==
    /\ entry = "gateway" /\ hstate = "idle" /\ served < MaxReqs
    /\ \E req \in Requests :
        /\ request' = req
        /\ LET v == verify_slack_signature(signing_secret, req) IN
            IF v = "raise" THEN hstate' = "raised" /\ UNCHANGED workers
            ELSE IF v = "false" THEN hstate' = "rejected" /\ UNCHANGED workers
            ELSE IF ~req.payload.json THEN hstate' = "raised" /\ UNCHANGED workers
            ELSE IF Bookable(req.payload) # 0
            THEN /\ workers' = Append(workers, Worker("created", FALSE))
                 /\ hstate' = "spawned"
            ELSE hstate' = "default" /\ UNCHANGED workers
    /\ served' = served + 1
    /\ response' = "none"
    /\ UNCHANGED <<entry, slackVars, notGateway, signing_secret, posts>>

\* Faulty variant of handle_slack_action_return: the thread is joined first.
handle_slack_action_joined ==
    /\ entry = "gateway" /\ hstate # "idle"
    /\ hstate = "spawned" => workers[Len(workers)].pc \in {"finished", "died"}
    /\ response' = hstate
    /\ hstate' = "idle"
    /\ UNCHANGED <<entry, slackVars, notGateway, signing_secret, request, served, workers, posts>>

\* Lines 141, 170-176: return the response (403, acknowledgement or default);
\* an exception that left the handler is answered by Flask with a 500
handle_slack_action_return ==
    /\ entry = "gateway" /\ hstate # "idle"
    /\ response' = CASE hstate = "rejected" -> "403"
                     [] hstate = "spawned" -> "ack"
                     [] hstate = "default" -> "default"
                     [] hstate = "raised" -> "500"
    /\ hstate' = "idle"
    /\ UNCHANGED <<entry, slackVars, notGateway, signing_secret, request, served, workers, posts>>

\* Lines 94-102: the thread runs book_slot_direct: it returns a validation
\* failure at once, or opens a browser context on the stored session, or the
\* launch raises
do_booking_call(w) ==
    /\ entry = "gateway" /\ w \in 1..Len(workers)
    /\ workers[w].pc = "created"
    /\ \E next \in {"returned", "attempt", "raised"} :
        workers' = [workers EXCEPT ![w] = Worker(next, FALSE)]
    /\ UNCHANGED <<entry, slackVars, notGateway, signing_secret, request, hstate, response, served,
                   posts>>

\* book_slot_direct lines 922-1025: the attempt ends with (True, ...),
\* (False, ...) or a raise
do_booking_attempt(w) ==
    /\ entry = "gateway" /\ w \in 1..Len(workers)
    /\ workers[w].pc = "attempt"
    /\ \/ \E ok \in BOOLEAN : workers' = [workers EXCEPT ![w] = Worker("returned", ok)]
       \/ workers' = [workers EXCEPT ![w] = Worker("raised", FALSE)]
    /\ UNCHANGED <<entry, slackVars, notGateway, signing_secret, request, hstate, response, served,
                   posts>>

\* Faulty variant of do_booking_respond: a raise of the POST is swallowed and
\* the thread ends.
do_booking_respond_silent(w) ==
    /\ entry = "gateway" /\ w \in 1..Len(workers)
    /\ workers[w].pc = "returned"
    /\ \/ /\ posts' = posts \cup
                {[worker |-> w, kind |-> IF workers[w].success THEN "confirmed" ELSE "failed"]}
          /\ workers' = [workers EXCEPT ![w].pc = "finished"]
       \/ /\ workers' = [workers EXCEPT ![w].pc = "finished"]
          /\ UNCHANGED posts
    /\ UNCHANGED <<entry, slackVars, notGateway, signing_secret, request, hstate, response, served>>

\* Lines 105-116: post the outcome; requests.post may raise into the except
do_booking_respond(w) ==
    /\ entry = "gateway" /\ w \in 1..Len(workers)
    /\ workers[w].pc = "returned"
    /\ \/ /\ posts' = posts \cup
                {[worker |-> w, kind |-> IF workers[w].success THEN "confirmed" ELSE "failed"]}
          /\ workers' = [workers EXCEPT ![w].pc = "finished"]
       \/ /\ workers' = [workers EXCEPT ![w].pc = "raised"]
          /\ UNCHANGED posts
    /\ UNCHANGED <<entry, slackVars, notGateway, signing_secret, request, hstate, response, served>>

\* Lines 117-123: except branch: post the error; a raise here ends the thread
do_booking_except(w) ==
    /\ entry = "gateway" /\ w \in 1..Len(workers)
    /\ workers[w].pc = "raised"
    /\ \/ /\ posts' = posts \cup {[worker |-> w, kind |-> "error"]}
          /\ workers' = [workers EXCEPT ![w].pc = "finished"]
       \/ /\ workers' = [workers EXCEPT ![w].pc = "died"]
          /\ UNCHANGED posts
    /\ UNCHANGED <<entry, slackVars, notGateway, signing_secret, request, hstate, response, served>>

\* ------------------------------------------------------------- specification
\* Configurations of run(): every horizon and wait setting with the default
\* court order and a session file, the default configuration without a session
\* file, and every candidate list with the default horizon and wait.  run()
\* reads the session file only to choose the browser context (lines 489-503).
RunConfigs ==
    {<<DefaultCourts, w, h, WEBHOOK, TRUE>> : w \in BOOLEAN, h \in 0..MaxHorizon}
    \cup {<<DefaultCourts, w, DEFAULT_DAYS_AHEAD_LIMIT, WEBHOOK, FALSE>> : w \in BOOLEAN}
    \cup {<<cl, FALSE, DEFAULT_DAYS_AHEAD_LIMIT, WEBHOOK, TRUE>> : cl \in CandidateLists}
    \cup {<<DefaultCourts, FALSE, DEFAULT_DAYS_AHEAD_LIMIT, "", TRUE>>}

\* Dates a callback can name: unparseable, or a day around the horizon
DirectDates ==
    {<<"t", "o", "d", "a", "y">>, str(YEAR) \o <<"-", "0", "2", "-", "3", "0">>}
    \cup {strftime(d) : d \in (0 - 1)..(MaxHorizon + 2)}

\* Calls of book_slot_direct: every date under every horizon for one court and
\* time, and every court and time text for today under the default horizon
DirectCalls ==
    {<<d, "Wood 1", TimeLabel(7, PM), h>> : d \in DirectDates, h \in 0..MaxHorizon}
    \cup {<<strftime(0), c, t, DEFAULT_DAYS_AHEAD_LIMIT>> : c \in Courts, t \in DirectTimes}

InitWorld ==
    /\ session_file \in BOOLEAN
    /\ clock \in {[day |-> 0, late |-> l] : l \in BOOLEAN}

InitGw ==
    /\ signing_secret = SECRET
    /\ request = NoRequest
    /\ hstate = "idle"
    /\ response = "none"
    /\ served = 0
    /\ workers = <<>>
    /\ posts = {}

InitEngine ==
    /\ pc = "start"
    /\ trace = <<>>
    /\ message = ""
    /\ page_day = 0
    /\ page_content = {}
    /\ day = 0
    /\ btn_text = <<>>
    /\ slack_post = "none"
    /\ slack_sent = "none"
    /\ now_manila = NoTime
    /\ target_date_obj = 0
    /\ slept = FALSE
    /\ click_positions = positions({}, {}, 0)
    /\ idx = 0
    /\ booked_successfully = FALSE
    /\ court_results = <<>>
    /\ hour = 0
    /\ days_ahead = 0
    /\ click_pos = [x |-> 0, y |-> 0]
    /\ result = NoResult
    /\ all_results = <<>>
    /\ page_blocks = {}
    /\ booking_data = <<>>
    /\ buttons = <<>>

\* A scan setup: ALT_START_HOUR, TARGET_START_HOUR, the columns and the hour rows
\* the page lets the scan resolve
DefaultScan == <<17, 19, Courts, {19, 20}>>

ScanSetups ==
    {DefaultScan,
     <<0, 19, Courts, {0, 12, 19}>>,
     <<12, 12, Courts, {12, 19}>>,
     <<0, 0, Courts, {0, 19}>>,
     <<17, 19, {"Wood 1"}, {19, 20}>>,
     <<17, 19, Courts, {20}>>}

\* Configurations of check_availability: every horizon with the default setup,
\* and every setup with a horizon of one or two days
CheckConfigs ==
    {<<DefaultScan, h, WEBHOOK>> : h \in 0..MaxHorizon}
    \cup {<<sc, h, WEBHOOK>> : sc \in ScanSetups, h \in 0..1}
    \cup {<<DefaultScan, 0, "">>}

ScanConfig(sc) ==
    /\ alt_start_hour = sc[1]
    /\ target_start_hour = sc[2]
    /\ page_columns = sc[3]
    /\ page_rows = sc[4]

DefaultConfig ==
    /\ target_courts = DefaultCourts
    /\ wait_enabled = FALSE
    /\ slack_webhook_url = WEBHOOK

DefaultArgs ==
    /\ target_date = strftime(0)
    /\ target_court = "Wood 1"
    /\ target_time = TimeLabel(7, PM)

InitRun ==
    /\ entry = "run"
    /\ InitWorld /\ InitEngine /\ InitGw
    /\ \E cfg \in RunConfigs :
        /\ target_courts = cfg[1]
        /\ wait_enabled = cfg[2]
        /\ days_ahead_limit = cfg[3]
        /\ slack_webhook_url = cfg[4]
        /\ session_file = cfg[5]
    /\ ScanConfig(DefaultScan)
    /\ DefaultArgs

InitDirect ==
    /\ entry = "direct"
    /\ InitWorld /\ InitEngine /\ InitGw
    /\ DefaultConfig
    /\ ScanConfig(DefaultScan)
    /\ \E call \in DirectCalls :
        /\ target_date = call[1]
        /\ target_court = call[2]
        /\ target_time = call[3]
        /\ days_ahead_limit = call[4]

InitCheck ==
    /\ entry = "check"
    /\ InitWorld /\ InitEngine /\ InitGw
    /\ target_courts = DefaultCourts
    /\ wait_enabled = FALSE
    /\ \E cfg \in CheckConfigs :
        /\ ScanConfig(cfg[1])
        /\ days_ahead_limit = cfg[2]
        /\ slack_webhook_url = cfg[3]
    /\ DefaultArgs

InitGateway ==
    /\ entry = "gateway"
    /\ session_file = TRUE
    /\ clock = NoTime
    /\ InitEngine
    /\ DefaultConfig
    /\ days_ahead_limit = DEFAULT_DAYS_AHEAD_LIMIT
    /\ ScanConfig(DefaultScan)
    /\ DefaultArgs
    /\ signing_secret \in {"", SECRET}
    /\ request = NoRequest
    /\ hstate = "idle"
    /\ response = "none"
    /\ served = 0
    /\ workers = <<>>
    /\ posts = {}

Init == InitRun \/ InitDirect \/ InitCheck \/ InitGateway

Next ==
    \/ Tick
    \/ run_open_landing
    \/ run_read_landing
    \/ run_check_login
    \/ run_calc_target
    \/ run_wait
    \/ run_load_target
    \/ run_day_view
    \/ run_advance
    \/ run_verify_date
    \/ run_locate
    \/ run_next_candidate
    \/ run_slot_click
    \/ run_book_lookup
    \/ run_book_click
    \/ run_confirm
    \/ run_no_modal
    \/ run_escape
    \/ run_report
    \/ book_slot_direct_validate
    \/ book_slot_direct_launch
    \/ book_slot_direct_goto
    \/ book_slot_direct_day_view
    \/ book_slot_direct_advance
    \/ book_slot_direct_locate
    \/ book_slot_direct_slot_click
    \/ book_slot_direct_book_lookup
    \/ book_slot_direct_book_click
    \/ book_slot_direct_confirm
    \/ book_slot_direct_fallthrough
    \/ book_slot_direct_error
    \/ check_availability_session
    \/ check_availability_goto
    \/ check_availability_day
    \/ check_availability_notify
    \/ handle_slack_action
    \/ handle_slack_action_return
    \/ \E w \in 1..MaxReqs :
        \/ do_booking_call(w)
        \/ do_booking_attempt(w)
        \/ do_booking_respond(w)
        \/ do_booking_except(w)

Spec == Init /\ [][Next]_vars

\* The gateway alone: the Flask handler and the threads it starts
GatewayNext ==
    \/ handle_slack_action
    \/ handle_slack_action_return
    \/ \E w \in 1..MaxReqs :
        \/ do_booking_call(w)
        \/ do_booking_attempt(w)
        \/ do_booking_respond(w)
        \/ do_booking_except(w)

\* A started thread is scheduled until its function ends, and the handler
\* returns its response; requests arrive whenever the sender chooses.
GatewayFairness ==
    /\ WF_vars(handle_slack_action_return)
    /\ \A w \in 1..MaxReqs :
        /\ WF_vars(do_booking_call(w))
        /\ WF_vars(do_booking_attempt(w))
        /\ WF_vars(do_booking_respond(w))
        /\ WF_vars(do_booking_except(w))

\* The gateway with its signing secret configured
LiveInit == InitGateway /\ signing_secret = SECRET

LiveSpec == LiveInit /\ [][GatewayNext]_vars /\ GatewayFairness

\* run() alone: the steps of its one sequential flow
RunStep ==
    \/ run_open_landing
    \/ run_read_landing
    \/ run_check_login
    \/ run_calc_target
    \/ run_wait
    \/ run_load_target
    \/ run_day_view
    \/ run_advance
    \/ run_verify_date
    \/ run_locate
    \/ run_next_candidate
    \/ run_slot_click
    \/ run_book_lookup
    \/ run_book_click
    \/ run_confirm
    \/ run_no_modal
    \/ run_escape
    \/ run_report

RunNext == Tick \/ RunStep

\* Every await of run() is bounded by a timeout or a sleep, so the flow goes on
\* as long as it has a step to take.
RunSpec == InitRun /\ [][RunNext]_vars /\ WF_vars(RunStep)

\* ------------------------------------------------------------- claims
Booked == {c \in DOMAIN court_results : court_results[c].booked}

Attempted(i) == \E n \in Kinds("slot") : trace[n].idx = i

SlotClicks(t) == Cardinality({n \in 1..Len(t) : t[n].kind = "slot"})

InLoop == pc \in {"loop", "slot", "book_lookup", "book_click", "confirm", "no_modal",
                  "escape", "report", "crashed"}

\* C1: in one run() at most one candidate court ends up booked, and once a
\* court is booked no further slot click is issued.
C1_AtMostOneConfirmed ==
    /\ [](entry = "run" => Cardinality(Booked) <= 1)
    /\ [][(entry = "run" /\ Booked # {}) => SlotClicks(trace') = SlotClicks(trace)]_vars

\* C1 witness: a court was booked while a later resolved candidate was left unclicked
C1_Witness ==
    /\ entry = "run" /\ pc = "done"
    /\ Booked # {}
    /\ idx < Len(target_courts)
    /\ target_courts[idx + 1] \in DOMAIN click_positions
    /\ ~Attempted(idx + 1)

\* C2: a court is reported booked (run) or success is returned
\* (book_slot_direct) only if the "Confirm booking" control was clicked for that
\* court in that attempt.
C2_ConfirmedOnlyAfterConfirmClick ==
    /\ entry = "run" =>
        \A c \in Booked : \E n \in Kinds("confirm") : target_courts[trace[n].idx] = c
    /\ entry = "direct" => (result.success => Kinds("confirm") # {})

AdvancesDone ==
    /\ entry = "run"
    /\ pc \in {"verify", "locate", "report", "done"} \/ InLoop
    /\ message # NOT_LOGGED_IN

\* the calendar day on which the page was loaded for navigation
LoadDay == page_day - Cardinality(Kinds("advance"))

\* C3: in run() the number of day advances equals days_ahead(target date)
\* counted from the day the page was loaded, so the day view reached is the
\* target date.
C3_AdvancesReachTarget ==
    AdvancesDone =>
        /\ Cardinality(Kinds("advance")) = target_date_obj - LoadDay
        /\ page_day = target_date_obj

\* C4 as stated: with no session file no entry point issues a page navigation,
\* and the outcome carries the re-authentication instruction.
C4_NoSessionNoNavigation ==
    (entry \in {"run", "direct", "check"} /\ ~session_file) =>
        /\ Kinds("goto") = {}
        /\ pc = "done" => (message = NO_SESSION \/ result.message = NO_SESSION)

\* C4 amended: with no session file book_slot_direct and check_availability
\* stop before any UI action with the setup instruction; run() loads the landing
\* page and stops early only through the login check, with the setup
\* instruction, when that page shows a visitor signal and no user signal.
C4_NoSessionAmended ==
    /\ (entry \in {"direct", "check"} /\ ~session_file) =>
        /\ trace = <<>>
        /\ pc \in {"start", "done"}
        /\ pc = "done" =>
            IF entry = "direct" THEN result = Result(FALSE, NO_SESSION)
            ELSE message = NO_SESSION
    /\ (entry = "run" /\ ~session_file) =>
        /\ pc # "start" => (trace # <<>> /\ trace[1] = Ev("goto", 0))
        /\ (pc = "done" /\ Kinds("notify") = {}) =>
            /\ message = NOT_LOGGED_IN
            /\ trace = <<Ev("goto", 0)>>
            /\ is_visitor(page_content) /\ ~is_logged_in(page_content)

\* C4 witness: book_slot_direct returned the setup instruction without a session
C4_Witness ==
    /\ entry = "direct" /\ ~session_file
    /\ pc = "done" /\ result = Result(FALSE, NO_SESSION)

\* page_content still holds what the landing page showed
LandingContentHeld ==
    /\ entry = "run"
    /\ pc \in {"login_decide", "calc", "wait", "load", "day_view", "advance", "verify"}
       \/ message = NOT_LOGGED_IN

\* C5 as stated: whenever the landing page shows a not-logged-in signal, run()
\* aborts and does nothing further.
C5_VisitorSignalAborts ==
    (LandingContentHeld /\ pc # "login_decide" /\ is_visitor(page_content)) =>
        /\ pc = "done"
        /\ trace = <<Ev("goto", 0)>>

\* C5 amended: whenever the landing page shows a not-logged-in signal and no
\* logged-in signal ("USER MODE" or "Profile"), run() aborts with the
\* re-authentication instruction and issues no further UI action or
\* notification.
C5_VisitorOnlyAborts ==
    (LandingContentHeld /\ pc # "login_decide"
        /\ is_visitor(page_content) /\ ~is_logged_in(page_content)) =>
        /\ pc = "done"
        /\ message = NOT_LOGGED_IN
        /\ trace = <<Ev("goto", 0)>>

\* C5 witness: run() aborted on a visitor-only landing page
C5_Witness ==
    /\ entry = "run" /\ pc = "done" /\ message = NOT_LOGGED_IN
    /\ "VISITOR MODE" \in page_content

\* C6: slot clicks follow the priority order of the list, every resolved
\* candidate before the current one has been clicked, and the loop is left only
\* when a court was booked or the list is exhausted (a missing Book control does
\* not end it).
C6_PriorityOrder ==
    (entry = "run" /\ InLoop) =>
        /\ \A m, n \in Kinds("slot") : m < n => trace[m].idx < trace[n].idx
        /\ \A i \in 1..Len(target_courts) :
            (i < idx /\ target_courts[i] \in DOMAIN click_positions) => Attempted(i)
        /\ pc = "report" => (booked_successfully \/ idx > Len(target_courts))

\* C6 witness: list [Wood 1, Wood 2], Wood 1 clicked first without a Book
\* click, then Wood 2 booked
C6_Witness ==
    /\ entry = "run" /\ pc = "done"
    /\ target_courts = <<"Wood 1", "Wood 2">>
    /\ Attempted(1) /\ Attempted(2)
    /\ \A n \in Kinds("book") : trace[n].idx = 2
    /\ Booked = {"Wood 2"}

\* C7: in run() and book_slot_direct the Book control is clicked, and a booking
\* is reported, only if the trimmed label of the control found is exactly "Book".
C7_ExactBookLabel ==
    (entry \in {"run", "direct"}
        /\ (Kinds("book") # {} \/ Kinds("confirm") # {} \/ Booked # {} \/ result.success)) =>
        Strip(btn_text) = BOOK

\* C7 witness: a control labelled "Booked" was found and the candidate was
\* left without a Book click
C7_Witness ==
    /\ entry = "run" /\ pc = "escape"
    /\ btn_text = BOOKED
    /\ Kinds("book") = {}

Attempting == {w \in 1..Len(workers) : workers[w].pc = "attempt"}

\* C8: at no time are two booking attempts in progress against the stored
\* session.
C8_SingleFlight == Cardinality(Attempting) <= 1

\* C9: once the worker thread of an accepted booking action is started, the
\* handler can return its acknowledgement whatever the worker has done so far.
C9_AckNotBlocked ==
    (entry = "gateway" /\ hstate = "spawned") =>
        /\ workers # <<>>
        /\ ENABLED handle_slack_action_return

\* C9 witness: the acknowledgement was returned while the worker had not
\* finished
C9_Witness ==
    /\ entry = "gateway" /\ response = "ack"
    /\ workers[Len(workers)].pc \in {"created", "attempt"}

BadSignature ==
    /\ entry = "gateway" /\ served > 0
    /\ request.sig # Sign(signing_secret, request.ts, request.payload)

StaleRequest ==
    /\ entry = "gateway" /\ served > 0
    /\ request.ts.numeric
    /\ Abs(request.ts.age) > FIVE_MINUTES

ValidationFailures == {NO_SESSION, BAD_TIME, BAD_DATE, PAST_DATE, BEYOND_LIMIT}

\* book_slot_direct went past its argument checks
Accepted ==
    /\ entry = "direct" /\ pc # "start"
    /\ ~(pc = "done" /\ result.message \in ValidationFailures)

\* book_slot_direct has looked at the date: session and time text were fine
DateExamined ==
    /\ entry = "direct" /\ pc # "start"
    /\ session_file /\ ParseHour(target_time).ok

\* C12: book_slot_direct accepts a target date exactly when it parses and
\* 0 <= days_ahead <= the configured booking horizon (DAYS_AHEAD_LIMIT), with
\* days_ahead counted in calendar days from today.
C12_AcceptedWithinHorizon ==
    DateExamined =>
        (Accepted <=> /\ strptime(target_date).ok
                      /\ 0 <= days_ahead /\ days_ahead <= days_ahead_limit)

\* the first action of the request handled last names a booking with a value
\* that does not split into three fields
WrongFieldCount ==
    /\ entry = "gateway" /\ served > 0
    /\ request.payload.json /\ request.payload.type = "block_actions"
    /\ request.payload.actions # <<>>
    /\ \A i \in 1..Len(request.payload.actions) :
          request.payload.actions[i].book /\ request.payload.actions[i].parts # 3

\* the date handed to book_slot_direct is unparseable, in the past or beyond
\* the configured horizon
BadDate ==
    /\ DateExamined
    /\ \/ ~strptime(target_date).ok
       \/ days_ahead < 0
       \/ days_ahead > days_ahead_limit

\* C13: a malformed callback payload (wrong field count, unparseable date, past
\* date, date beyond the horizon) never leads to a booking click and never
\* raises: no worker is started, or book_slot_direct returns (False, message).
C13_MalformedNeverBooks ==
    /\ WrongFieldCount => (hstate \in {"default", "idle"} /\ response \in {"none", "default"})
    /\ BadDate =>
        /\ Kinds("slot") = {} /\ Kinds("book") = {} /\ Kinds("confirm") = {}
        /\ pc # "raised"
        /\ pc = "done" => ~result.success

Scanned == entry = "check" /\ all_results # <<>>

\* the entry of the day scanned last
LastDay == all_results[Len(all_results)]

InSeq(x, seq) == \E i \in 1..Len(seq) : seq[i] = x

\* what the gateway and book_slot_direct make of a button value
RoundTrip(value) ==
    LET parts == split(value, "|")
    IN  [fields |-> Len(parts),
         date |-> parts[1],
         court |-> IF Len(parts) > 1 THEN parts[2] ELSE <<>>,
         hour |-> IF Len(parts) > 2 THEN ParseHour(parts[3]) ELSE [ok |-> FALSE, hour |-> 0]]

\* C14: the value make_button builds from a date, a court and the label of an
\* hour (the scanner's label of a scanned hour, or the target display of the
\* target hour) is split on "|" into the same date and court, and the time
\* parsing of book_slot_direct maps the label back to the hour it was made from.
C14_PayloadRoundTrip ==
    Scanned =>
        /\ \A court \in page_columns : \A h \in DOMAIN booking_data[court].slots :
              RoundTrip(make_button(court, hourLabel(h), LastDay.date)) =
                  [fields |-> 3, date |-> LastDay.date, court |-> CourtText(court),
                   hour |-> [ok |-> TRUE, hour |-> h]]
        /\ \A court \in Courts :
              RoundTrip(make_button(court, target_display, LastDay.date)) =
                  [fields |-> 3, date |-> LastDay.date, court |-> CourtText(court),
                   hour |-> [ok |-> TRUE, hour |-> target_start_hour]]
        /\ strptime(LastDay.date) = [ok |-> TRUE, day |-> now_manila.day + Len(all_results) - 1]

\* the matrix row of a court in the day scanned last
Matrix(court) ==
    LastDay.results[CHOOSE i \in 1..Len(LastDay.results) : LastDay.results[i].court = court]

\* some occupied block has its centre within 70% of the column width of the
\* column centre and covers the top of the hour row
Covered(court, h) ==
    \E b \in page_blocks :
        /\ 10 * (b.centerX - Column(court).centerX) < 7 * Column(court).width
        /\ 10 * (Column(court).centerX - b.centerX) < 7 * Column(court).width
        /\ b.y <= RowY(h) + 20
        /\ b.bottom > RowY(h)

\* the cells whose column and row the scan resolved
Resolved == {cell \in page_columns \X (alt_start_hour..LAST_HOUR) : cell[2] \in page_rows}

\* C20: in the scanner a resolved (court, hour) cell is classified booked if
\* and only if some occupied block overlaps the column horizontally and covers
\* the hour row vertically; otherwise it is classified available.
C20_BookedIffOverlap ==
    Scanned =>
        \A cell \in Resolved :
            /\ InSeq(hourLabel(cell[2]), Matrix(cell[1]).booked) <=> Covered(cell[1], cell[2])
            /\ InSeq(hourLabel(cell[2]), Matrix(cell[1]).available) <=> ~Covered(cell[1], cell[2])

\* C20 witness: with Wood 1 occupied from 19:00 to 20:00, the 7 PM cell of
\* Wood 1 is booked while its 8 PM cell and the 7 PM cell of Wood 2 are available
C20_Witness ==
    /\ Scanned
    /\ {<<"Wood 1", 19>>, <<"Wood 1", 20>>, <<"Wood 2", 19>>} \subseteq Resolved
    /\ Matrix("Wood 1").booked = <<hourLabel(19)>>
    /\ Matrix("Wood 1").available = <<hourLabel(20)>>
    /\ InSeq(hourLabel(19), Matrix("Wood 2").available)

\* run() has computed its target date
Calculated ==
    /\ entry = "run"
    /\ pc \notin {"start", "login_check", "login_decide", "calc"}
    /\ message # NOT_LOGGED_IN

\* 23:59:59.5 of the day the run started
StartDayActivation == [day |-> 0, late |-> TRUE]

\* C15: with the midnight wait enabled, run() issues nothing after the landing
\* page load (no load of the target date, no day-view switch, no advance, no
\* slot, Book or Confirm click) before the Manila time has reached 23:59:59.5
\* of the day the run started.
C15_NothingBeforeActivation ==
    (entry = "run" /\ wait_enabled /\ Len(trace) > 1) =>
        /\ TimeGE(clock, StartDayActivation)
        /\ TimeGE(clock, target_wait_time)

\* C15 witness: the run slept in the wait loop and later clicked a slot
C15_Witness ==
    /\ entry = "run" /\ wait_enabled /\ slept
    /\ Kinds("slot") # {}

\* C16: when the wait loop of run() is reached at or after the activation
\* instant, it is left on the first check and no sleep is performed.
C16_PastActivationNoSleep ==
    /\ []((Calculated /\ wait_enabled /\ now_manila.late) => ~slept)
    /\ [][(entry = "run" /\ pc = "wait" /\ TimeGE(clock, target_wait_time)) =>
            /\ slept' = slept
            /\ pc' \in {"wait", "load"}
            /\ pc' = "wait" => clock' # clock]_vars

\* C16 witness: the run computed its target after 23:59:59.5 and left the wait
\* without sleeping
C16_Witness ==
    /\ entry = "run" /\ wait_enabled /\ now_manila.late
    /\ pc = "load" /\ ~slept

\* C17: the target date computed by run() is DAYS_AHEAD_LIMIT calendar days
\* after now, and days_ahead of its date text, counted from the same now,
\* equals DAYS_AHEAD_LIMIT.
C17_TargetIsHorizonAhead ==
    Calculated =>
        LET parsed == strptime(strftime(target_date_obj)) IN
        /\ target_date_obj = now_manila.day + days_ahead_limit
        /\ parsed.ok
        /\ parsed.day - now_manila.day = days_ahead_limit

\* C17 witness: a run started on 2026-01-30 with horizon 4 targets 2026-02-03
C17_Witness ==
    /\ Calculated /\ now_manila.day = 0
    /\ days_ahead_limit = DEFAULT_DAYS_AHEAD_LIMIT
    /\ strftime(target_date_obj) = str(YEAR) \o <<"-", "0", "2", "-", "0", "3">>

\* C18: every invocation of book_slot_direct ends by returning a
\* (success, message) pair; a failure at any step of the attempt becomes a
\* (False, detail) result and nothing is raised to the caller.
C18_AlwaysReturnsPair ==
    entry = "direct" =>
        /\ pc # "raised"
        /\ pc = "done" => result # NoResult

\* run() or check_availability has called send_slack_message
Notified == entry \in {"run", "check"} /\ slack_post # "none"

\* C19: send_slack_message never raises to its caller: unconfigured,
\* unreachable, timed out or answered with a non-200 status, it returns False,
\* and the run or scan that called it ends normally.
C19_NotifyNeverRaises ==
    Notified =>
        /\ pc = "done"
        /\ slack_sent = IF slack_post = "200" THEN "True" ELSE "False"

\* C19 witness: the webhook timed out at the end of a run that booked a court,
\* and the run still ended normally
C19_Witness ==
    /\ entry = "run" /\ pc = "done"
    /\ Booked # {}
    /\ slack_post = "timeout" /\ slack_sent = "False"

\* how often a label occurs in a list
Count(label, list) == Cardinality({k \in DOMAIN list : list[k] = label})

\* the matrix rows of every day scanned so far
MatrixRows == {all_results[d].results[i] :
                 d \in DOMAIN all_results, i \in 1..Len(target_courts)}

MessageBuilt == entry = "check" /\ Kinds("notify") # {}

\* C22: the multi-day message carries a target-hour button for a (day, court)
\* pair exactly when the target hour is in that court's available hours in the
\* matrix of that day.
C22_TargetButtonIffAvailable ==
    MessageBuilt =>
        \A d \in DOMAIN all_results : \A i \in 1..Len(target_courts) :
            InSeq(make_button(target_courts[i], target_display, all_results[d].date), buttons)
                <=> InSeq(hourLabel(target_start_hour), all_results[d].results[i].available)

\* C23: during check_availability no cell, "Book" or "Confirm booking" click
\* and no key press is issued; the only pointer actions are the day-view switch,
\* once and before every scan, and one advance between two consecutive scans.
C23_ScannerReadOnly ==
    entry = "check" =>
        /\ \A n \in DOMAIN trace : trace[n].kind \in {"goto", "day_view", "advance", "scan", "notify"}
        /\ Cardinality(Kinds("day_view")) <= 1
        /\ \A n \in Kinds("day_view") : \A k \in Kinds("scan") : n < k
        /\ \A n \in Kinds("advance") :
            /\ n > 1 /\ trace[n - 1].kind = "scan"
            /\ n < Len(trace) /\ trace[n + 1].kind = "scan"
        /\ \A n \in Kinds("scan") :
            n < Len(trace) => trace[n + 1].kind \in {"advance", "notify"}

\* C23 witness: a scan of three days has finished and notified
C23_Witness ==
    /\ MessageBuilt
    /\ Cardinality(Kinds("scan")) = 3
    /\ Cardinality(Kinds("advance")) = 2

\* the candidate loop of run() has gone through the whole list without a booking
Exhausted ==
    /\ entry = "run"
    /\ pc = "report" \/ Kinds("notify") # {}
    /\ ~booked_successfully

\* C24: when every candidate of run() is exhausted without success, the run
\* reports the booking as not completed, and the result summary has an entry
\* for every candidate court, none of them marked booked.
C24_ExhaustedReportsAll ==
    Exhausted =>
        /\ DOMAIN court_results = {target_courts[i] : i \in 1..Len(target_courts)}
        /\ Booked = {}
        /\ Kinds("notify") # {} => message = NOT_COMPLETED

\* C24 witness: both candidates were clicked, neither was booked, and the run
\* has reported
C24_Witness ==
    /\ Exhausted /\ pc = "done"
    /\ target_courts = <<"Wood 1", "Wood 2">>
    /\ Attempted(1) /\ Attempted(2)
    /\ message = NOT_COMPLETED
    /\ DOMAIN court_results = {"Wood 1", "Wood 2"}

\* run() is at one of steps 2-4 for the candidate idx
InSteps == entry = "run" /\ pc \in {"slot", "book_lookup", "book_click", "confirm", "no_modal", "escape"}

\* C25: an error in the slot click, the Book lookup or click, or the confirm
\* lookup or click of a candidate never ends run(): Escape is pressed and the
\* loop goes on with the next candidate.
C25_ErrorsContinue ==
    [][InSteps =>
        /\ pc' # "crashed"
        /\ (pc = "confirm" /\ trace' = trace) => pc' = "escape"
        /\ pc' = "loop" => (idx' = idx + 1 /\ trace' = Append(trace, Ev("escape", idx)))]_vars

\* the candidates whose grid coordinate the locator did not resolve
Unresolved == {i \in 1..Len(target_courts) : target_courts[i] \notin DOMAIN click_positions}

\* C26: a candidate of run() without a resolved coordinate is skipped with no
\* UI action: no slot click, no Book or confirm click and no Escape press
\* carries its index, and the skipping step leaves the UI trace as it is and
\* moves to the next candidate.
C26_UnresolvedSkipped ==
    /\ []((entry = "run" /\ InLoop) =>
            \A i \in Unresolved : \A n \in DOMAIN trace : trace[n].idx # i)
    /\ [][(entry = "run" /\ pc = "loop" /\ idx \in Unresolved /\ ~booked_successfully) =>
            (trace' = trace /\ idx' = idx + 1 /\ pc' = "loop")]_vars

\* C26 witness: the first candidate was unresolved and skipped, the second one
\* was clicked
C26_Witness ==
    /\ entry = "run" /\ InLoop
    /\ Len(target_courts) = 2
    /\ Unresolved = {1}
    /\ Attempted(2)

\* the worker w has posted an outcome message to the response URL
Posted(w) == \E post \in posts : post.worker = w

\* every thread started so far has posted its outcome message
AllPosted == \A w \in DOMAIN workers : Posted(w)

\* every thread started so far has posted its outcome message, or has ended
\* because the POST of the outcome and the POST of the error message both raised
Settled == \A w \in DOMAIN workers : Posted(w) \/ workers[w].pc = "died"

DateMismatch == TARGET_DATE_TEXT \notin page_content

\* C28: in run() the date check after the last advance changes nothing but the
\* page text read: match or mismatch, the next step is the grid location, which
\* is enabled whatever the check found and is followed by the candidate loop
\* from its first candidate.
C28_MismatchOnlyWarns ==
    /\ [][(entry = "run" /\ pc = "verify") =>
            (pc' = "locate" /\ trace' = trace /\ message' = message /\ UNCHANGED runVars)]_vars
    /\ []((entry = "run" /\ pc = "locate") => ENABLED run_locate)
    /\ [][(entry = "run" /\ pc = "locate") =>
            (pc' = "loop" /\ idx' = 1 /\ trace' = Append(trace, Ev("locate", 0))
             /\ page_content' = page_content)]_vars

\* C28 witness: the date check found no match, and the first candidate's cell
\* has been clicked all the same
C28_Witness ==
    /\ entry = "run" /\ pc = "book_lookup"
    /\ idx = 1 /\ Attempted(1)
    /\ Kinds("escape") = {}
    /\ DateMismatch

\* the n-th UI action is a navigation step: page load, day-view switch or advance
Navigation(n) == trace[n].kind \in {"goto", "day_view", "advance"}

\* C29: in run() and in book_slot_direct every slot click comes after a grid
\* location with no navigation step between that location and the click, so
\* no coordinate computed before a navigation is used after it.
C29_ClickUsesFreshCoordinate ==
    entry \in {"run", "direct"} =>
        \A n \in Kinds("slot") :
            \E l \in Kinds("locate") :
                /\ l < n
                /\ \A k \in l..n : ~Navigation(k)

\* C29 witness: after a navigation with an advance and one grid location, both
\* candidates of run() were clicked, the second one after the first one's Escape
C29_Witness ==
    /\ entry = "run"
    /\ Kinds("advance") # {}
    /\ Cardinality(Kinds("locate")) = 1
    /\ Attempted(1) /\ Attempted(2)

\* the page shows the row labels of hour h and of the hour after it
BothRows(h) == {h, h + 1} \subseteq page_rows

\* C30: in both grid locators, when the row label of the target hour and the
\* row label of the following hour are both found, the click y-coordinate is
\* the midpoint between the two rows.
C30_MidpointOfRows ==
    /\ (entry = "run" /\ BothRows(target_start_hour)) =>
            \A court \in DOMAIN click_positions :
                2 * click_positions[court].y = RowY(target_start_hour) + RowY(target_start_hour + 1)
    /\ (entry = "direct" /\ BothRows(hour) /\ click_pos.x # 0 /\ click_pos.y # 0) =>
            2 * click_pos.y = RowY(hour) + RowY(hour + 1)

\* the scans before the n-th UI action
ScansBefore(n) == {k \in Kinds("scan") : k < n}

\* the day loop of check_availability has ended
DaysDone == entry = "check" /\ (pc = "notify" \/ MessageBuilt)

C32_LoopReachesReport ==
    /\ [](entry = "run" =>
            \A i \in 1..Len(target_courts) :
                Cardinality({n \in Kinds("slot") : trace[n].idx = i}) <= 1)
    /\ [][(entry = "run" /\ InLoop) => idx' >= idx]_vars
    /\ (entry = "run" /\ pc = "loop") ~> (pc = "report")

\* C33: for every hour h of the scan range, the label the scanner emits for h is
\* parsed back to h by the time parsing of book_slot_direct: every label in an
\* available list of a scanned matrix stands for the hour it parses to.
C33_ScannedLabelParsesBack ==
    entry = "check" =>
        \A row \in MatrixRows : \A h \in alt_start_hour..LAST_HOUR :
            InSeq(hourLabel(h), row.available) =>
                ParseHour(hourLabel(h)) = [ok |-> TRUE, hour |-> h]

\* C34: handle_slack_action answers every POST with a 403 rejection or a JSON
\* body and never raises, whatever the timestamp header and the payload are.
C34_HandlerNeverRaises ==
    entry = "gateway" =>
        /\ hstate # "raised"
        /\ response \in {"none", "403", "ack", "default"}

\* the payload is a block_actions payload with an action whose action_id begins
\* with "book_slot_" and whose value has exactly three fields
HasBookAction(payload) ==
    /\ payload.json /\ payload.type = "block_actions"
    /\ \E i \in 1..Len(payload.actions) : payload.actions[i].book /\ payload.actions[i].parts = 3

HasPeriod(text) == HasText(upper(text), AM) \/ HasText(upper(text), PM)

\* C36: book_slot_direct gets past its validation (and so launches a browser
\* and clicks) only with an hour within 0..23 parsed from a label that carries
\* AM or PM; any other label is rejected as a validation failure.
C36_HourWithinDay ==
    Accepted => (hour \in 0..23 /\ HasPeriod(target_time))

\* book_slot_direct has returned a validation failure
ValidationFailed ==
    /\ entry = "direct" /\ pc = "done"
    /\ result.message \in ValidationFailures

\* C37: when book_slot_direct returns a validation failure (no session, bad
\* time, bad date, past date, date beyond the horizon), it does so in its first
\* step: no browser was launched, no page loaded and no click issued.
C37_ValidationFailureNoEffect ==
    /\ [](ValidationFailed =>
            /\ ~result.success
            /\ trace = <<>>
            /\ click_pos = [x |-> 0, y |-> 0]
            /\ page_content = {} /\ day = 0)
    /\ [][(entry = "direct" /\ result' # result /\ result'.message \in ValidationFailures) =>
            (pc = "start" /\ pc' = "done")]_vars

\* C37 witness: a date beyond the horizon was refused with nothing done
C37_Witness ==
    /\ ValidationFailed
    /\ session_file
    /\ result = Result(FALSE, BEYOND_LIMIT)
    /\ trace = <<>>

\* C38: in run(), between the slot clicks of two candidates there is an Escape
\* press issued for the earlier one, so its dialog is dismissed before the
\* next cell is clicked.
C38_EscapeBetweenClicks ==
    entry = "run" =>
        \A n \in Kinds("slot") : \A k \in Kinds("slot") :
            n < k => \E e \in Kinds("escape") :
                        /\ n < e /\ e < k
                        /\ trace[e].idx = trace[n].idx

\* C38 witness: the second candidate's cell has just been clicked, after the
\* first candidate's click and its Escape
C38_Witness ==
    /\ entry = "run" /\ pc = "book_lookup" /\ idx = 2
    /\ Cardinality(Kinds("slot")) = 2
    /\ Cardinality(Kinds("escape")) = 1
    /\ trace[Len(trace)] = Ev("slot", 2)
    /\ trace[Len(trace) - 1] = Ev("escape", 1)

====
